---------------------------- MODULE Spec2Model ----------------------------
(***************************************************************************)
(* The WeatherMap component of src/src/App.tsx as a state machine.         *)
(*                                                                         *)
(* State: the four useState cells (selectedLocation, searchQuery, loading, *)
(* recentLocations) and the lookups in flight.  Every handler runs to its  *)
(* next await atomically (JavaScript runs one job at a time), so there is  *)
(* one action per handler entry and one per await continuation.            *)
(*                                                                         *)
(* Abstractions: a coordinate is a pair of small integers (a grid cell);   *)
(* of a WeatherData only `condition` and `location` are kept (the other    *)
(* fields are copied from the response and read by no handler); a display  *)
(* name is the sequence of the parts that join(', ') concatenates.         *)
(***************************************************************************)
EXTENDS Integers, Sequences, FiniteSets, TLC

VARIABLES
    mounted,           \* the mount effects (map click handler, first fetchWeather) have run
    selectedLocation,  \* useState<LocationData>
    searchQuery,       \* useState(''), a sequence of characters
    loading,           \* useState(false)
    recentLocations,   \* useState<LocationData[]>([])
    tasks,             \* the lookups in flight, in the order they were started
    lookups,           \* how many lookups have been started so far
    last               \* the last handler step: which, how its lookup stands, its toast

vars == <<mounted, selectedLocation, searchQuery, loading, recentLocations,
          tasks, lookups, last>>

----------------------------------------------------------------------------
(* Bounds of the model. *)

NumCoords == 2           \* coordinates a lookup may be for (Spec)
MaxInFlight == 2         \* lookups in flight at once (Spec, SpecSnapshot)
MaxLookups == 3          \* lookups started in a behaviour (Spec)
NumCoordsSnapshot == 2
MaxLookupsSnapshot == 3
NumCoordsHistory == 6
MaxLookupsHistory == 2   \* lookups started after the initial state (SpecHistory)
MaxWeatherCode == 99     \* weather codes 0..MaxWeatherCode (SpecCode)
MaxLookupsCode == 2      \* lookups, one at a time, for one coordinate (SpecCode)

(* Program constants. *)

HistoryCap == 5
SeoulLat == 37
SeoulLon == 126

----------------------------------------------------------------------------
(* Values. *)

\* The i-th coordinate pair of the model: consecutive pairs share a latitude,
\* so that equality of pairs differs from equality of latitudes.
CoordAt(i) == <<SeoulLat + ((i - 1) \div 2), SeoulLon + ((i - 1) % 2)>>

CoordsUpTo(n) == {CoordAt(i) : i \in 1..n}

\* Condition labels of weatherCodeToCondition (the source's Korean strings).
Clear == "clear"                 \* '맑음'
PartlyCloudy == "partly cloudy"  \* '구름 조금'
Fog == "fog"                     \* '안개'
Rain == "rain"                   \* '비'
Snow == "snow"                   \* '눈'
Showers == "showers"             \* '소나기'
Thunderstorm == "thunderstorm"   \* '뇌우'

UnknownLocation == <<"unknown location">>   \* '알 수 없는 위치'

\* weatherCodeToCondition with every band's bound excluded (< for <=).
weatherCodeToConditionStrict(code) ==
    IF code = 0 THEN Clear
    ELSE IF code < 3 THEN PartlyCloudy
    ELSE IF code < 48 THEN Fog
    ELSE IF code < 67 THEN Rain
    ELSE IF code < 77 THEN Snow
    ELSE IF code < 82 THEN Showers
    ELSE IF code < 86 THEN Snow
    ELSE Thunderstorm

weatherCodeToCondition(code) ==
    IF code = 0 THEN Clear
    ELSE IF code <= 3 THEN PartlyCloudy
    ELSE IF code <= 48 THEN Fog
    ELSE IF code <= 67 THEN Rain
    ELSE IF code <= 77 THEN Snow
    ELSE IF code <= 82 THEN Showers
    ELSE IF code <= 86 THEN Snow
    ELSE Thunderstorm

\* The address fields fetchWeather reads, in the order it pushes them.
AddressOrder ==
    <<"neighbourhood", "suburb", "village", "hamlet", "city_district",
      "district", "borough", "city", "town", "county">>

AddressFields == {AddressOrder[i] : i \in DOMAIN AddressOrder}

\* geoData.address || {}: a field that is absent (or empty) is "".
NoAddress == [f \in AddressFields |-> ""]

SeoulAddress ==
    [f \in AddressFields |->
        CASE f = "neighbourhood" -> "Sajik-dong"
          [] f = "city_district" -> "Jongno-gu"
          [] f = "city" -> "Seoul"
          [] OTHER -> ""]

CityAddress == [f \in AddressFields |-> IF f = "city" THEN "Tokyo" ELSE ""]

RECURSIVE PushParts(_, _)
PushParts(addr, i) ==
    IF i > Len(AddressOrder) THEN <<>>
    ELSE (IF addr[AddressOrder[i]] # "" THEN <<addr[AddressOrder[i]]>> ELSE <<>>)
         \o PushParts(addr, i + 1)

locationParts(addr) == PushParts(addr, 1)

\* locationParts.slice(0, 2).join(', '), or the placeholder.
locationName(addr) ==
    LET parts == locationParts(addr) IN
    IF Len(parts) > 0
    THEN SubSeq(parts, 1, IF Len(parts) < 2 THEN Len(parts) ELSE 2)
    ELSE UnknownLocation

\* The initial useState value of selectedLocation: no weather yet.
InitialLocation ==
    [name |-> <<"Seoul">>, lat |-> SeoulLat, lon |-> SeoulLon,
     hasWeather |-> FALSE, condition |-> ""]

newLocation(lat, lon, code, addr) ==
    [name |-> locationName(addr), lat |-> lat, lon |-> lon,
     hasWeather |-> TRUE, condition |-> weatherCodeToCondition(code)]

----------------------------------------------------------------------------
(* Strings: searchQuery.trim() and parseFloat of a geocoder coordinate. *)

WhiteSpace == {" ", "\t"}

RECURSIVE TrimStart(_)
TrimStart(s) ==
    IF s # <<>> /\ Head(s) \in WhiteSpace THEN TrimStart(Tail(s)) ELSE s

RECURSIVE TrimEnd(_)
TrimEnd(s) ==
    IF s # <<>> /\ s[Len(s)] \in WhiteSpace
    THEN TrimEnd(SubSeq(s, 1, Len(s) - 1)) ELSE s

\* searchCity testing !searchQuery without trimming.
TrimNothing(s) == s

Trim(s) == TrimEnd(TrimStart(s))

DigitChars == <<"0", "1", "2", "3", "4", "5", "6", "7", "8", "9">>

IsDigit(ch) == \E d \in DOMAIN DigitChars : DigitChars[d] = ch

DigitValue(ch) == (CHOOSE d \in DOMAIN DigitChars : DigitChars[d] = ch) - 1

RECURSIVE ToDecimal(_)
ToDecimal(n) ==
    IF n < 10 THEN <<DigitChars[n + 1]>>
    ELSE ToDecimal(n \div 10) \o <<DigitChars[(n % 10) + 1]>>

\* parseFloat on the strings the model's geocoder returns: an integer part,
\* then optionally "." and zeros.  The value of the leading digit run.
RECURSIVE ParseDigits(_, _)
ParseDigits(s, acc) ==
    IF s # <<>> /\ IsDigit(Head(s))
    THEN ParseDigits(Tail(s), 10 * acc + DigitValue(Head(s)))
    ELSE acc

parseFloat(s) == ParseDigits(TrimStart(s), 0)

\* The two spellings of a coordinate the model's geocoder may return.
Spellings(n) == {ToDecimal(n), ToDecimal(n) \o <<".", "0">>}

----------------------------------------------------------------------------
(* The inputs a specification draws from: the coordinates a click, a       *)
(* geocoder answer or the device may give; the weather codes, body shapes  *)
(* (TRUE: `current` and `daily` are present) and addresses the remote      *)
(* sources may answer with; the texts typed into the search box; the caps  *)
(* on lookups.  trackStart makes each lookup remember the displayed state  *)
(* it started from, trackOrder whether a lookup started after it has       *)
(* finished before it.                                                     *)

QuerySamples == {<<>>, <<" ", "\t">>, <<" ", "a">>}

MainBounds ==
    [coords |-> CoordsUpTo(NumCoords), codes |-> {95}, shapes |-> BOOLEAN,
     addrs |-> {NoAddress, SeoulAddress}, queries |-> {<<>>, <<"a">>},
     trackStart |-> FALSE, trackOrder |-> TRUE,
     maxInFlight |-> MaxInFlight, maxLookups |-> MaxLookups]

SnapshotBounds ==
    [coords |-> CoordsUpTo(NumCoordsSnapshot), codes |-> {0}, shapes |-> BOOLEAN,
     addrs |-> {NoAddress, CityAddress}, queries |-> QuerySamples,
     trackStart |-> TRUE, trackOrder |-> FALSE,
     maxInFlight |-> MaxInFlight, maxLookups |-> MaxLookupsSnapshot]

HistoryBounds ==
    [coords |-> CoordsUpTo(NumCoordsHistory), codes |-> {0}, shapes |-> {TRUE},
     addrs |-> {NoAddress, CityAddress}, queries |-> {<<"a">>},
     trackStart |-> FALSE, trackOrder |-> FALSE,
     maxInFlight |-> MaxLookupsHistory, maxLookups |-> MaxLookupsHistory]

CodeBounds ==
    [coords |-> CoordsUpTo(1), codes |-> 0..MaxWeatherCode, shapes |-> {TRUE},
     addrs |-> {CityAddress}, queries |-> {<<"a">>},
     trackStart |-> FALSE, trackOrder |-> FALSE,
     maxInFlight |-> 1, maxLookups |-> MaxLookupsCode]

----------------------------------------------------------------------------
(* Helpers. *)

RemoveAt(s, i) == SubSeq(s, 1, i - 1) \o SubSeq(s, i + 1, Len(s))

Take(s, n) == SubSeq(s, 1, IF Len(s) < n THEN Len(s) ELSE n)

SameCoords(loc, lat, lon) == loc.lat = lat /\ loc.lon = lon

\* The updater without its filter: a repeated coordinate is recorded again.
recordRecentNoFilter(prev, rec) == Take(<<rec>> \o prev, HistoryCap)

\* The updater without its slice: nothing is ever dropped.
recordRecentNoSlice(prev, rec) ==
    LET keep(loc) == ~SameCoords(loc, rec.lat, rec.lon)
    IN  <<rec>> \o SelectSeq(prev, keep)

\* The updater passed to setRecentLocations.
recordRecent(prev, rec) ==
    LET keep(loc) == ~SameCoords(loc, rec.lat, rec.lon)
        filtered == SelectSeq(prev, keep)
    IN  Take(<<rec>> \o filtered, HistoryCap)

\* What the step just taken was: the handler or continuation, how the lookup
\* it belongs to stands after it ("none": the step belongs to no lookup), the
\* toast it raised, and whether the lookup was overtaken (see AfterCommit).
Emit(op, outcome, toast) ==
    last' = [op |-> op, outcome |-> outcome, toast |-> toast, late |-> FALSE]

\* A lookup entering at `pc`: the await it is suspended at, the arguments of
\* fetchWeather once it is called, and what the weather source answered.
NewTask(B, pc, lat, lon) ==
    [pc |-> pc, lat |-> lat, lon |-> lon,
     code |-> 0, wellFormed |-> TRUE,
     snapSelected |-> IF B.trackStart THEN selectedLocation ELSE InitialLocation,
     snapRecent |-> IF B.trackStart THEN recentLocations ELSE <<>>,
     dirty |-> FALSE, overtaken |-> FALSE]

CanStart(B) ==
    mounted /\ lookups < B.maxLookups /\ Len(tasks) < B.maxInFlight

\* fetchWeather(lat, lon) called from an event handler: setLoading(true), then
\* the weather request is sent and the function suspends at its first await.
CallFetchWeather(B, op, lat, lon) ==
    /\ tasks' = Append(tasks, NewTask(B, "weather", lat, lon))
    /\ lookups' = lookups + 1
    /\ loading' = TRUE
    /\ Emit(op, "started", "none")
    /\ UNCHANGED <<mounted, selectedLocation, searchQuery, recentLocations>>

\* A failure that also clears the displayed weather (a reset in the catch).
EndLookupResettingSelection(i, op, toast) ==
    /\ tasks' = RemoveAt(tasks, i)
    /\ loading' = FALSE
    /\ selectedLocation' = [selectedLocation EXCEPT !.hasWeather = FALSE,
                                                    !.condition = ""]
    /\ Emit(op, "failure", toast)
    /\ UNCHANGED <<mounted, searchQuery, recentLocations, lookups>>

\* A lookup ends without a result: the toast of the catch block (or of the
\* empty-result branch, or of the error callback), then setLoading(false).
\* When fetchWeather was awaited by searchCity, searchCity's own finally
\* (setLoading(false) again) runs in the same drain of the job queue.
EndLookup(i, op, toast) ==
    /\ tasks' = RemoveAt(tasks, i)
    /\ loading' = FALSE
    /\ Emit(op, "failure", toast)
    /\ UNCHANGED <<mounted, selectedLocation, searchQuery, recentLocations, lookups>>

\* The other lookups in flight after lookup i has written its result: each
\* notes that the displayed state changed under it, and the ones started
\* before i that a later lookup finished first.
AfterCommit(B, i) ==
    LET note(j) == [tasks[j] EXCEPT !.dirty = B.trackStart,
                                    !.overtaken = @ \/ (B.trackOrder /\ j < i)]
    IN  RemoveAt([j \in DOMAIN tasks |-> note(j)], i)

----------------------------------------------------------------------------
(* Event handlers. *)

\* useEffect(() => { fetchWeather(selectedLocation.lat, selectedLocation.lon) }, [])
\* and the effect that registers the map click handler.
Mount(B) ==
    /\ ~mounted
    /\ mounted' = TRUE
    /\ tasks' = Append(tasks, NewTask(B, "weather",
                                     selectedLocation.lat, selectedLocation.lon))
    /\ lookups' = lookups + 1
    /\ loading' = TRUE
    /\ Emit("Mount", "started", "none")
    /\ UNCHANGED <<selectedLocation, searchQuery, recentLocations>>

\* map.on('click', ...): the map is not disabled while loading.
MapClick(B) ==
    /\ CanStart(B)
    /\ \E c \in B.coords : CallFetchWeather(B, "MapClick", c[1], c[2])

\* A recent-location button that also selects the entry at once.
RecentClickSelectingAtOnce(B) ==
    /\ CanStart(B)
    /\ ~loading
    /\ \E k \in DOMAIN recentLocations :
          /\ tasks' = Append(tasks, NewTask(B, "weather", recentLocations[k].lat,
                                            recentLocations[k].lon))
          /\ selectedLocation' = recentLocations[k]
          /\ lookups' = lookups + 1
          /\ loading' = TRUE
          /\ Emit("RecentClick", "started", "none")
          /\ UNCHANGED <<mounted, searchQuery, recentLocations>>

\* A recent-location button, disabled={loading}.
RecentClick(B) ==
    /\ CanStart(B)
    /\ ~loading
    /\ \E k \in DOMAIN recentLocations :
          CallFetchWeather(B, "RecentClick",
                           recentLocations[k].lat, recentLocations[k].lon)

\* The search box's onChange, disabled={loading}.
SetSearchQuery(B) ==
    /\ mounted
    /\ ~loading
    /\ \E q \in B.queries : searchQuery' = q
    /\ Emit("SetSearchQuery", "none", "none")
    /\ UNCHANGED <<mounted, selectedLocation, loading, recentLocations, tasks, lookups>>

\* searchCity from the button or Enter, both disabled={loading}.
searchCity(B) ==
    /\ mounted
    /\ ~loading
    /\ \/ /\ Trim(searchQuery) = <<>>
          /\ Emit("searchCity", "none", "none")
          /\ UNCHANGED <<mounted, selectedLocation, searchQuery, loading,
                         recentLocations, tasks, lookups>>
       \/ /\ Trim(searchQuery) # <<>>
          /\ CanStart(B)
          /\ tasks' = Append(tasks, NewTask(B, "search", 0, 0))
          /\ lookups' = lookups + 1
          /\ loading' = TRUE
          /\ Emit("searchCity", "started", "none")
          /\ UNCHANGED <<mounted, selectedLocation, searchQuery, recentLocations>>

\* getCurrentLocation from the location button, disabled={loading}.  Whether
\* navigator.geolocation exists is read from the environment at each call.
getCurrentLocation(B) ==
    /\ mounted
    /\ ~loading
    /\ \/ /\ Emit("getCurrentLocation", "failure", "unsupported")
          /\ UNCHANGED <<mounted, selectedLocation, searchQuery, loading,
                         recentLocations, tasks, lookups>>
       \/ /\ CanStart(B)
          /\ tasks' = Append(tasks, NewTask(B, "position", 0, 0))
          /\ lookups' = lookups + 1
          /\ loading' = TRUE
          /\ Emit("getCurrentLocation", "started", "info")
          /\ UNCHANGED <<mounted, selectedLocation, searchQuery, recentLocations>>

----------------------------------------------------------------------------
(* Continuations: what runs when an awaited request or the device answers. *)

\* A lookup moves on to its next await.
Advance(i, op, task) ==
    /\ tasks' = [tasks EXCEPT ![i] = task]
    /\ Emit(op, "pending", "none")
    /\ UNCHANGED <<mounted, selectedLocation, searchQuery, loading,
                   recentLocations, lookups>>

\* fetchWeather(lat, lon) called by a lookup already in flight (searchCity,
\* the geolocation success callback): setLoading(true), first await.
EnterFetchWeather(i, op, lat, lon) ==
    /\ tasks' = [tasks EXCEPT ![i].pc = "weather", ![i].lat = lat, ![i].lon = lon]
    /\ loading' = TRUE
    /\ Emit(op, "pending", "none")
    /\ UNCHANGED <<mounted, selectedLocation, searchQuery, recentLocations, lookups>>

\* searchCity: await fetch(search?q=...).  The status is not looked at.
SearchResponse(B) ==
    \E i \in DOMAIN tasks :
        /\ tasks[i].pc = "search"
        /\ \/ EndLookup(i, "SearchResponse", "searchError")
           \/ Advance(i, "SearchResponse", [tasks[i] EXCEPT !.pc = "searchJson"])

\* searchCity: await response.json(), then the empty check and fetchWeather.
\* A body that does not parse, or that is no array with a first element,
\* throws into the catch; an empty array takes the not-found branch.
SearchJson(B) ==
    \E i \in DOMAIN tasks :
        /\ tasks[i].pc = "searchJson"
        /\ \/ EndLookup(i, "SearchJson", "searchError")
           \/ EndLookup(i, "SearchJson", "notFound")
           \/ \E c \in B.coords :
                \E lat \in Spellings(c[1]), lon \in Spellings(c[2]) :
                    EnterFetchWeather(i, "SearchJson", parseFloat(lat), parseFloat(lon))

\* getCurrentPosition's success callback.
PositionSuccess(B) ==
    \E i \in DOMAIN tasks :
        /\ tasks[i].pc = "position"
        /\ \E c \in B.coords : EnterFetchWeather(i, "PositionSuccess", c[1], c[2])

PositionErrorToast(code) ==
    CASE code = 1 -> "permissionDenied"
      [] code = 2 -> "positionUnavailable"
      [] code = 3 -> "timeout"
      [] OTHER -> "locationError"

\* The error callback without its setLoading(false).
PositionErrorKeepingLoading(B) ==
    \E i \in DOMAIN tasks :
        /\ tasks[i].pc = "position"
        /\ \E code \in 0..3 :
              /\ tasks' = RemoveAt(tasks, i)
              /\ Emit("PositionError", "failure", PositionErrorToast(code))
              /\ UNCHANGED <<mounted, selectedLocation, searchQuery, loading,
                             recentLocations, lookups>>

\* getCurrentPosition's error callback: setLoading(false), one toast by code.
PositionError(B) ==
    \E i \in DOMAIN tasks :
        /\ tasks[i].pc = "position"
        /\ \E code \in 0..3 :
              EndLookup(i, "PositionError", PositionErrorToast(code))

\* fetchWeather: await fetch(forecast?...), then the !ok check.
WeatherResponse(B) ==
    \E i \in DOMAIN tasks :
        /\ tasks[i].pc = "weather"
        /\ \/ EndLookup(i, "WeatherResponse", "weatherError")  \* rejected, or !ok
           \/ Advance(i, "WeatherResponse", [tasks[i] EXCEPT !.pc = "weatherJson"])

\* fetchWeather: await weatherResponse.json(), then the reverse-geocode
\* request is sent.  A body without `current` or `daily` is read only later.
WeatherJson(B) ==
    \E i \in DOMAIN tasks :
        /\ tasks[i].pc = "weatherJson"
        /\ \/ EndLookup(i, "WeatherJson", "weatherError")
           \/ \E code \in B.codes :
                Advance(i, "WeatherJson",
                        [tasks[i] EXCEPT !.pc = "geo", !.code = code])
           \/ /\ FALSE \in B.shapes
              /\ Advance(i, "WeatherJson",
                         [tasks[i] EXCEPT !.pc = "geo", !.wellFormed = FALSE])

\* fetchWeather: await fetch(reverse?...).  The status is not looked at.
GeoResponse(B) ==
    \E i \in DOMAIN tasks :
        /\ tasks[i].pc = "geo"
        /\ \/ EndLookup(i, "GeoResponse", "weatherError")
           \/ Advance(i, "GeoResponse", [tasks[i] EXCEPT !.pc = "geoJson"])

\* A completion that is applied only when no lookup was started after it
\* (the result of a superseded lookup is thrown away).
CommitIfLatest(B, i, rec) ==
    /\ selectedLocation' = IF i = Len(tasks) THEN rec ELSE selectedLocation
    /\ recentLocations' = IF i = Len(tasks) THEN recordRecent(recentLocations, rec)
                          ELSE recentLocations
    /\ tasks' = AfterCommit(B, i)
    /\ loading' = FALSE
    /\ last' = [op |-> "GeoJson", outcome |-> "success", toast |-> "success",
                late |-> tasks[i].overtaken]
    /\ UNCHANGED <<mounted, searchQuery, lookups>>

\* The rest of fetchWeather's try block and its finally: the record is built
\* and both pieces of state are set in one job.
Commit(B, i, rec) ==
    /\ selectedLocation' = rec
    /\ recentLocations' = recordRecent(recentLocations, rec)
    /\ tasks' = AfterCommit(B, i)
    /\ loading' = FALSE
    /\ last' = [op |-> "GeoJson", outcome |-> "success", toast |-> "success",
                late |-> tasks[i].overtaken]
    /\ UNCHANGED <<mounted, searchQuery, lookups>>

\* fetchWeather: await geoResponse.json(), then everything up to the finally.
GeoJson(B) ==
    \E i \in DOMAIN tasks :
        /\ tasks[i].pc = "geoJson"
        /\ \/ EndLookup(i, "GeoJson", "weatherError")
           \/ /\ ~tasks[i].wellFormed
              /\ EndLookup(i, "GeoJson", "weatherError")
           \/ /\ tasks[i].wellFormed
              /\ \E addr \in B.addrs :
                    Commit(B, i, newLocation(tasks[i].lat, tasks[i].lon,
                                             tasks[i].code, addr))

----------------------------------------------------------------------------
(* Specifications. *)

Init ==
    /\ mounted = FALSE
    /\ selectedLocation = InitialLocation
    /\ searchQuery = <<>>
    /\ loading = FALSE
    /\ recentLocations = <<>>
    /\ tasks = <<>>
    /\ lookups = 0
    /\ last = [op |-> "Init", outcome |-> "none", toast |-> "none", late |-> FALSE]

NextIn(B) ==
    \/ Mount(B)
    \/ MapClick(B)
    \/ RecentClick(B)
    \/ SetSearchQuery(B)
    \/ searchCity(B)
    \/ getCurrentLocation(B)
    \/ SearchResponse(B)
    \/ SearchJson(B)
    \/ PositionSuccess(B)
    \/ PositionError(B)
    \/ WeatherResponse(B)
    \/ WeatherJson(B)
    \/ GeoResponse(B)
    \/ GeoJson(B)

Next == NextIn(MainBounds)

Spec == Init /\ [][Next]_vars

NextSnapshot == NextIn(SnapshotBounds)

SpecSnapshot == Init /\ [][NextSnapshot]_vars

\* The state after successful lookups, one at a time, for the first
\* HistoryCap - 1 coordinates: the history is one short of full.  `lookups`
\* counts from here.
RECURSIVE HistoryAfter(_)
HistoryAfter(n) ==
    IF n = 0 THEN <<>>
    ELSE recordRecent(HistoryAfter(n - 1),
                      newLocation(CoordAt(n)[1], CoordAt(n)[2], 0, CityAddress))

InitWarm ==
    /\ mounted = TRUE
    /\ recentLocations = HistoryAfter(HistoryCap - 1)
    /\ selectedLocation = recentLocations[1]
    /\ searchQuery = <<>>
    /\ loading = FALSE
    /\ tasks = <<>>
    /\ lookups = 0
    /\ last = [op |-> "GeoJson", outcome |-> "success", toast |-> "success",
               late |-> FALSE]

NextHistory == NextIn(HistoryBounds)

SpecHistory == (Init \/ InitWarm) /\ [][NextHistory]_vars

NextCode == NextIn(CodeBounds)

SpecCode == Init /\ [][NextCode]_vars

----------------------------------------------------------------------------
(* Vocabulary of the properties. *)

\* What the code keeps of a lookup (a task without the bookkeeping fields).
Core(t) == [pc |-> t.pc, lat |-> t.lat, lon |-> t.lon, code |-> t.code,
            wellFormed |-> t.wellFormed]

Cores(ts) == [j \in DOMAIN ts |-> Core(ts[j])]

\* This step ended lookup i and left the others in flight.
Ended(i) == i \in DOMAIN tasks /\ Cores(tasks') = Cores(RemoveAt(tasks, i))

\* This step is lookup i completing successfully / in failure.
Succeeded(i) == last'.outcome = "success" /\ Ended(i)

Failed(i) == last'.outcome = "failure" /\ Ended(i)

\* This step is getCurrentLocation finding no geolocation service.
Unsupported == last'.op = "getCurrentLocation" /\ last'.outcome = "failure"

Displayed == <<selectedLocation, recentLocations>>

IndexOf(lat, lon) ==
    {k \in DOMAIN recentLocations : SameCoords(recentLocations[k], lat, lon)}

NoDuplicates(h) ==
    \A k, m \in DOMAIN h : SameCoords(h[k], h[m].lat, h[m].lon) => k = m

IsBlank(q) == \A k \in DOMAIN q : q[k] \in WhiteSpace

----------------------------------------------------------------------------
(* C1: a lookup that ends in failure writes nothing.                       *)

\* C1 as stated: whenever a lookup ends in failure (weather rejected or not
\* ok, geocoder empty or throwing, device error, no geolocation service),
\* selectedLocation and recentLocations equal their values at its start.
C1_RestoredToStart ==
    [][/\ \A i \in DOMAIN tasks :
             Failed(i) => /\ selectedLocation' = tasks[i].snapSelected
                          /\ recentLocations' = tasks[i].snapRecent
       /\ Unsupported => UNCHANGED Displayed]_vars

\* C1 as amended: the step that ends a lookup in failure leaves
\* selectedLocation and recentLocations as they were, and they equal their
\* values at the lookup's start unless another lookup completed successfully
\* in between.  No step other than a successful completion writes them.
C1_FailureWritesNothing ==
    [][/\ \A i \in DOMAIN tasks :
             Failed(i) => /\ UNCHANGED Displayed
                          /\ ~tasks[i].dirty =>
                                /\ selectedLocation' = tasks[i].snapSelected
                                /\ recentLocations' = tasks[i].snapRecent
       /\ Unsupported => UNCHANGED Displayed
       /\ last'.outcome # "success" => UNCHANGED Displayed]_vars

\* A weather failure after a result was displayed, with another lookup still
\* in flight.
C1_Witness ==
    /\ last.outcome = "failure"
    /\ last.op = "WeatherResponse"
    /\ selectedLocation.hasWeather
    /\ recentLocations # <<>>
    /\ tasks # <<>>

----------------------------------------------------------------------------
(* C4: searchCity with a blank query does nothing.                         *)

\* C4: a searchCity step taken with an empty or whitespace-only searchQuery
\* starts no request (no lookup is added) and changes none of
\* selectedLocation, recentLocations, searchQuery and loading; no toast.
C4_BlankSearchNoOp ==
    [][(last'.op = "searchCity" /\ IsBlank(searchQuery)) =>
          /\ UNCHANGED <<selectedLocation, recentLocations, searchQuery,
                         loading, tasks, lookups>>
          /\ last'.toast = "none"
          /\ last'.outcome = "none"]_vars

\* searchCity has just returned on a whitespace-only query, results displayed.
C4_Witness ==
    /\ last.op = "searchCity"
    /\ last.outcome = "none"
    /\ searchQuery # <<>>
    /\ IsBlank(searchQuery)
    /\ recentLocations # <<>>

----------------------------------------------------------------------------
(* C2, C3: the recent-locations history.                                   *)

\* C2: no two entries of recentLocations have the same (lat, lon); a
\* successful lookup for coordinates already in the history leaves one entry
\* for them, at the front, carrying the record just resolved (the one set as
\* selectedLocation), and the other entries keep their order.
C2_NoDuplicateMoveToFront ==
    [][/\ NoDuplicates(recentLocations')
       /\ \A i \in DOMAIN tasks :
             \A k \in IndexOf(tasks[i].lat, tasks[i].lon) :
                Succeeded(i) =>
                   /\ SameCoords(recentLocations'[1], tasks[i].lat, tasks[i].lon)
                   /\ recentLocations'[1] = selectedLocation'
                   /\ recentLocations'[1].condition =
                         weatherCodeToCondition(tasks[i].code)
                   /\ Tail(recentLocations') = RemoveAt(recentLocations, k)]_vars

\* A lookup for coordinates that were third in a history of four has moved
\* them to the front with a different name, while another lookup is in flight.
C2_Witness ==
    /\ last.outcome = "success"
    /\ Len(recentLocations) = HistoryCap - 1
    /\ SameCoords(recentLocations[1], CoordAt(2)[1], CoordAt(2)[2])
    /\ recentLocations[1].name = UnknownLocation
    /\ SameCoords(recentLocations[2], CoordAt(4)[1], CoordAt(4)[2])
    /\ tasks # <<>>

\* C3: recentLocations never holds more than 5 entries; a successful lookup
\* for new coordinates recorded into a full history drops the last (oldest)
\* entry and puts the new one first.
C3_CappedDropsOldest ==
    [][/\ Len(recentLocations') <= HistoryCap
       /\ \A i \in DOMAIN tasks :
             (/\ Succeeded(i)
              /\ Len(recentLocations) = HistoryCap
              /\ IndexOf(tasks[i].lat, tasks[i].lon) = {}) =>
                 /\ SameCoords(recentLocations'[1], tasks[i].lat, tasks[i].lon)
                 /\ Tail(recentLocations') =
                       SubSeq(recentLocations, 1, HistoryCap - 1)]_vars

\* The history is full and the oldest entry of the initial history is gone.
C3_Witness ==
    /\ last.outcome = "success"
    /\ Len(recentLocations) = HistoryCap
    /\ \A k \in DOMAIN recentLocations :
          ~SameCoords(recentLocations[k], CoordAt(1)[1], CoordAt(1)[2])
    /\ SameCoords(recentLocations[HistoryCap], CoordAt(2)[1], CoordAt(2)[2])

----------------------------------------------------------------------------
(* C5, C10: the loading flag.                                              *)

\* C5: loading is true right after a lookup starts, false right after a
\* lookup ends (success or failure), and false whenever no lookup is in
\* flight: once every request and callback has answered it is not stuck true.
C5_LoadingFalseWhenIdle ==
    /\ tasks = <<>> => ~loading
    /\ last.outcome = "started" => loading
    /\ last.outcome \in {"success", "failure"} => ~loading

\* Every lookup has ended, the last one by the device's error callback.
C5_Witness ==
    /\ tasks = <<>>
    /\ ~loading
    /\ lookups >= 2
    /\ last.op = "PositionError"

\* C10 as stated: while at least one lookup is in flight, loading is true.
C10_LoadingWhileInFlight == tasks # <<>> => loading

----------------------------------------------------------------------------
(* C6: a failing reverse-geocode request.                                  *)

\* C6 as stated: once the weather request has succeeded (the lookup awaits
\* the reverse-geocode request or its body, the weather body being well
\* formed), the lookup is not aborted: it ends successfully, the new record
\* (named by the placeholder when no address came) replaces selectedLocation
\* and is first in recentLocations.
C6_GeocodeFailureDegrades ==
    [][\A i \in DOMAIN tasks :
          (/\ tasks[i].pc \in {"geo", "geoJson"}
           /\ tasks[i].wellFormed
           /\ Ended(i)) =>
              /\ last'.outcome = "success"
              /\ SameCoords(selectedLocation', tasks[i].lat, tasks[i].lon)
              /\ recentLocations'[1] = selectedLocation'
              /\ selectedLocation'.name \in
                    {UnknownLocation} \cup {locationName(a) : a \in MainBounds.addrs}]_vars

----------------------------------------------------------------------------
(* C7, C9: overlapping lookups and the displayed state.                    *)

\* A step of one lookup leaves every other lookup in flight, as it was.
OthersUntouched ==
    \/ /\ Len(tasks') = Len(tasks) + 1
       /\ \A j \in DOMAIN tasks : Core(tasks'[j]) = Core(tasks[j])
    \/ /\ Len(tasks') = Len(tasks)
       /\ Cardinality({j \in DOMAIN tasks : Core(tasks'[j]) # Core(tasks[j])}) <= 1
    \/ \E i \in DOMAIN tasks : Ended(i)

\* C7: no lookup cancels another, and a lookup that completes successfully
\* sets selectedLocation and the first entry of recentLocations to its own
\* result, whether or not a lookup started after it has completed before it:
\* after both have completed, the one that completed last is displayed.
C7_LastCompletedWins ==
    [][/\ OthersUntouched
       /\ \A i \in DOMAIN tasks :
             Succeeded(i) =>
                /\ SameCoords(selectedLocation', tasks[i].lat, tasks[i].lon)
                /\ selectedLocation'.condition = weatherCodeToCondition(tasks[i].code)
                /\ selectedLocation'.hasWeather
                /\ recentLocations'[1] = selectedLocation']_vars

\* Two lookups for different coordinates overlapped, the one started later
\* completed first, and the one started first has just completed: it is the
\* one displayed, and the other is second in the history.
C7_Witness ==
    /\ last.outcome = "success"
    /\ last.late
    /\ tasks = <<>>
    /\ Len(recentLocations) >= 2
    /\ ~SameCoords(recentLocations[2], selectedLocation.lat, selectedLocation.lon)

\* C9: whenever recentLocations is not empty, selectedLocation is its first
\* entry; only a successful completion writes either of them.
C9_SelectedIsFirstRecent ==
    [][/\ recentLocations' # <<>> => selectedLocation' = recentLocations'[1]
       /\ last'.outcome # "success" => UNCHANGED Displayed]_vars

\* A second result has been recorded while another lookup is in flight.
C9_Witness ==
    /\ Len(recentLocations) >= 2
    /\ selectedLocation = recentLocations[1]
    /\ last.outcome = "success"
    /\ tasks # <<>>

----------------------------------------------------------------------------
(* C8: the weather-code bands.                                             *)

\* The band table of the specification, by ranges.
BandLabel(code) ==
    CASE code = 0 -> Clear
      [] code \in 1..3 -> PartlyCloudy
      [] code \in 4..48 -> Fog
      [] code \in 49..67 -> Rain
      [] code \in 68..77 -> Snow
      [] code \in 78..82 -> Showers
      [] code \in 83..86 -> Snow
      [] OTHER -> Thunderstorm

\* C8: for every weather code the source answers with, the condition of the
\* record a lookup displays is the label of the code's band in the table; it
\* depends on the code alone.
C8_ConditionMatchesBands ==
    [][\A i \in DOMAIN tasks :
          Succeeded(i) =>
             /\ selectedLocation'.condition = BandLabel(tasks[i].code)
             /\ recentLocations'[1].condition = BandLabel(tasks[i].code)]_vars

\* Results for codes of two different bands are displayed and recorded.
C8_Witness ==
    /\ last.outcome = "success"
    /\ selectedLocation.condition = Showers
    /\ lookups = 2

=============================================================================
